---- MODULE Spec2Model ----
(***************************************************************************)
(* Model of scripts/generate_static_site.py: the GCP IAM static site       *)
(* generator.  Strings the code inspects character by character (role and  *)
(* permission names, file names) are sequences of one-character strings;   *)
(* JSON objects with optional keys are functions whose domain holds the    *)
(* keys that are present.                                                  *)
(***************************************************************************)
EXTENDS Integers, Sequences, FiniteSets, TLC

VARIABLES pc, exit_status, dirs, token, page_token, page_num, all_roles,
          roles, dataset, idx, fs, fs0, requests, responses, trace

vars == <<pc, exit_status, dirs, token, page_token, page_num, all_roles,
          roles, dataset, idx, fs, fs0, requests, responses, trace>>

(***************************************************************************)
(* Bounds of the model.                                                    *)
(***************************************************************************)
\* pages the role-catalog API may serve in one run
MaxPages == 2
\* roles in the list handed to build_dataset in SpecBuild
MaxRoles == 3

(***************************************************************************)
(* Python values.                                                          *)
(***************************************************************************)
\* Python's None
None == "<None>"

\* dict.get(key, default)
Get(d, k, default) == IF k \in DOMAIN d THEN d[k] ELSE default

\* ord() of the characters that occur in the modelled names
Ord == [c \in {".", "/", "B", "_", "a", "b", "e", "h", "l", "m", "o", "r", "s", "t"} |->
          CASE c = "." -> 46 [] c = "/" -> 47 [] c = "B" -> 66 [] c = "_" -> 95
            [] c = "a" -> 97 [] c = "b" -> 98 [] c = "e" -> 101 [] c = "h" -> 104
            [] c = "l" -> 108 [] c = "m" -> 109 [] c = "o" -> 111 [] c = "r" -> 114
            [] c = "s" -> 115 [] c = "t" -> 116]

\* str < str: lexicographic by code point, a proper prefix comes first
RECURSIVE StrLess(_, _)
StrLess(a, b) ==
    IF b = <<>> THEN FALSE
    ELSE IF a = <<>> THEN TRUE
    ELSE IF Head(a) = Head(b) THEN StrLess(Tail(a), Tail(b))
    ELSE Ord[Head(a)] < Ord[Head(b)]

\* a mis-sort: descending order
SortedDescending(S) ==
    LET RECURSIVE Desc(_)
        Desc(T) == IF T = {} THEN <<>>
                   ELSE LET m == CHOOSE x \in T : \A y \in T \ {x} : StrLess(y, x)
                        IN  <<m>> \o Desc(T \ {m})
    IN  Desc(S)

\* sorted(set of str)
Sorted(S) ==
    LET RECURSIVE Asc(_)
        Asc(T) == IF T = {} THEN <<>>
                  ELSE LET m == CHOOSE x \in T : \A y \in T \ {x} : StrLess(x, y)
                       IN  <<m>> \o Asc(T \ {m})
    IN  Asc(S)

\* s[n:] for n <= len(s)
Drop(s, n) == SubSeq(s, n + 1, Len(s))

\* str.replace(old, new): every non-overlapping occurrence, left to right
RECURSIVE Replace(_, _, _)
Replace(s, old, new) ==
    IF Len(s) < Len(old) THEN s
    ELSE IF SubSeq(s, 1, Len(old)) = old
         THEN new \o Replace(Drop(s, Len(old)), old, new)
         ELSE <<Head(s)>> \o Replace(Tail(s), old, new)

\* str.split(sep) for a one-character sep
RECURSIVE SplitFrom(_, _, _)
SplitFrom(s, sep, cur) ==
    IF s = <<>> THEN <<cur>>
    ELSE IF Head(s) = sep THEN <<cur>> \o SplitFrom(Tail(s), sep, <<>>)
    ELSE SplitFrom(Tail(s), sep, Append(cur, Head(s)))

Split(s, sep) == SplitFrom(s, sep, <<>>)

(***************************************************************************)
(* build_dataset                                                           *)
(***************************************************************************)
\* the {'name', 'title', 'stage'} entry appended to a permission's grantor list
RoleSummary(role) ==
    [name |-> Get(role, "name", <<>>),
     title |-> Get(role, "title", ""),
     stage |-> Get(role, "stage", "GA")]

\* an inner loop body that records a permission's first grantor only
AddGrantFirstOnly(acc, role, perm) ==
    [all |-> acc.all \cup {perm},
     p2r |-> IF perm \in DOMAIN acc.p2r
             THEN acc.p2r
             ELSE (perm :> <<RoleSummary(role)>>) @@ acc.p2r]

\* body of the inner loop: all_permissions.add(perm); permission_to_roles[perm].append(...)
AddGrant(acc, role, perm) ==
    [all |-> acc.all \cup {perm},
     p2r |-> IF perm \in DOMAIN acc.p2r
             THEN [acc.p2r EXCEPT ![perm] = Append(@, RoleSummary(role))]
             ELSE (perm :> <<RoleSummary(role)>>) @@ acc.p2r]

\* for perm in perms
RECURSIVE InvertPerms(_, _, _)
InvertPerms(acc, role, perms) ==
    IF perms = <<>> THEN acc
    ELSE InvertPerms(AddGrant(acc, role, Head(perms)), role, Tail(perms))

\* an outer loop that reads only the first permission of each role
RECURSIVE InvertRolesFirstPerm(_, _)
InvertRolesFirstPerm(acc, rs) ==
    IF rs = <<>> THEN acc
    ELSE LET ps == Get(Head(rs), "includedPermissions", <<>>)
         IN  InvertRolesFirstPerm(
                 InvertPerms(acc, Head(rs), IF ps = <<>> THEN <<>> ELSE <<Head(ps)>>),
                 Tail(rs))

\* for role in roles: the permission -> roles mapping and the set of all permissions
RECURSIVE InvertRoles(_, _)
InvertRoles(acc, rs) ==
    IF rs = <<>> THEN acc
    ELSE InvertRoles(
             InvertPerms(acc, Head(rs), Get(Head(rs), "includedPermissions", <<>>)),
             Tail(rs))

\* a projection that also replaces an empty stage by "GA"
RoleRecordEmptyIsGA(role) ==
    [name |-> Get(role, "name", <<>>),
     title |-> Get(role, "title", ""),
     description |-> Get(role, "description", ""),
     stage |-> IF Get(role, "stage", "GA") = "" THEN "GA" ELSE Get(role, "stage", "GA"),
     included_permissions |-> Get(role, "includedPermissions", <<>>),
     etag |-> Get(role, "etag", "")]

\* one entry of roles_data
RoleRecord(role) ==
    [name |-> Get(role, "name", <<>>),
     title |-> Get(role, "title", ""),
     description |-> Get(role, "description", ""),
     stage |-> Get(role, "stage", "GA"),
     included_permissions |-> Get(role, "includedPermissions", <<>>),
     etag |-> Get(role, "etag", "")]

\* one entry of permissions_data
PermissionRecord(perm, p2r) ==
    LET parts == Split(perm, ".")
    IN  [name |-> perm,
         service |-> IF Len(parts) > 0 THEN parts[1] ELSE <<>>,
         resource |-> IF Len(parts) > 1 THEN parts[2] ELSE <<>>,
         action |-> IF Len(parts) > 2 THEN parts[3] ELSE <<>>,
         granted_by_roles |-> Get(p2r, perm, <<>>)]

\* build_dataset(roles); metadata.last_updated (the clock) is left out
build_dataset(rs) ==
    LET inv == InvertRoles([all |-> {}, p2r |-> <<>>], rs)
        roles_data == [i \in 1..Len(rs) |-> RoleRecord(rs[i])]
        names == Sorted(inv.all)
        permissions_data == [i \in 1..Len(names) |-> PermissionRecord(names[i], inv.p2r)]
    IN  [roles |-> roles_data,
         permissions |-> permissions_data,
         metadata |-> [total_roles |-> Len(roles_data),
                       total_permissions |-> Len(permissions_data),
                       source |-> "Google Cloud IAM API"]]

(***************************************************************************)
(* Names used by the inputs and by the output paths.                       *)
(***************************************************************************)
\* the literal 'roles/'
ROLES_PREFIX == <<"r", "o", "l", "e", "s", "/">>

\* the literal '.html'
HTML_EXT == <<".", "h", "t", "m", "l">>

BASE_URL == "https://gcpiam.com"

OUTPUT_DIR == "data"
STATIC_DIR == "data/static"
ROLES_DIR == "data/static/roles"
PERMISSIONS_DIR == "data/static/permissions"

AllDirs == {OUTPUT_DIR, STATIC_DIR, ROLES_DIR, PERMISSIONS_DIR}

\* OUTPUT_DIR / "iam-data.json", STATIC_DIR / "sitemap.xml", STATIC_DIR / "index.html"
json_path == [dir |-> OUTPUT_DIR, file |-> <<"iam-data.json">>]
sitemap_path == [dir |-> STATIC_DIR, file |-> <<"sitemap.xml">>]
index_path == [dir |-> STATIC_DIR, file |-> <<"index.html">>]

\* role['name'].replace('roles/', '').replace('/', '_') + '.html'
RoleFilename(name) ==
    LET role_name == Replace(name, ROLES_PREFIX, <<>>)
    IN  Replace(role_name, <<"/">>, <<"_">>) \o HTML_EXT

\* perm['name'].replace('/', '_') + '.html'
PermFilename(name) == Replace(name, <<"/">>, <<"_">>) \o HTML_EXT

RolePath(name) == [dir |-> ROLES_DIR, file |-> RoleFilename(name)]
PermPath(name) == [dir |-> PERMISSIONS_DIR, file |-> PermFilename(name)]

\* urllib.parse.quote(s): letters, digits and _.-~/ are kept, a space becomes %20
QuoteChar(c) == IF c = " " THEN <<"%", "2", "0">> ELSE <<c>>

RECURSIVE Quote(_)
Quote(s) == IF s = <<>> THEN <<>> ELSE QuoteChar(Head(s)) \o Quote(Tail(s))

(***************************************************************************)
(* Renderers.  A page is kept as the fields the renderer interpolates; the *)
(* dates (the clock) are left out.                                         *)
(***************************************************************************)
generate_permission_page(perm_data) ==
    [h1 |-> perm_data.name,
     canonical |-> [base |-> BASE_URL, section |-> "/permissions/",
                    path |-> Quote(perm_data.name)],
     count |-> Len(perm_data.granted_by_roles)]

generate_role_page(role_data) ==
    [h1 |-> role_data.name,
     canonical |-> [base |-> BASE_URL, section |-> "/roles/",
                    path |-> Quote(Replace(role_data.name, ROLES_PREFIX, <<>>))],
     count |-> Len(role_data.included_permissions)]

generate_index_page(metadata) ==
    [h1 |-> <<>>,
     canonical |-> [base |-> BASE_URL, section |-> "/", path |-> <<>>],
     count |-> metadata.total_permissions]

RootUrl ==
    [loc |-> [base |-> BASE_URL, section |-> "/", path |-> <<>>],
     changefreq |-> "daily", priority |-> "1.0"]

RoleUrl(role) ==
    [loc |-> [base |-> BASE_URL, section |-> "/roles/",
              path |-> Quote(Replace(role.name, ROLES_PREFIX, <<>>))],
     changefreq |-> "weekly", priority |-> "0.8"]

PermUrl(perm) ==
    [loc |-> [base |-> BASE_URL, section |-> "/permissions/", path |-> Quote(perm.name)],
     changefreq |-> "weekly", priority |-> "0.7"]

\* a sitemap without the root entry
generate_sitemap_no_root(rs, ps) ==
    [i \in 1..Len(rs) |-> RoleUrl(rs[i])] \o [i \in 1..Len(ps) |-> PermUrl(ps[i])]

\* generate_sitemap(roles, permissions): the <url> entries in order
generate_sitemap(rs, ps) ==
    <<RootUrl>> \o [i \in 1..Len(rs) |-> RoleUrl(rs[i])]
                \o [i \in 1..Len(ps) |-> PermUrl(ps[i])]

(***************************************************************************)
(* Inputs: the role objects the API may return, the pages it may serve.    *)
(***************************************************************************)
\* permission names: "a.b", "b.a", "a", "B", "a/b", "a_b"
P_a_dot_b == <<"a", ".", "b">>
P_b_dot_a == <<"b", ".", "a">>
P_a == <<"a">>
P_B == <<"B">>
P_a_slash_b == <<"a", "/", "b">>
P_a_under_b == <<"a", "_", "b">>

\* role names: "roles/a", "roles/b", "roles/a/b", "roles/a_b", "roles/roles/a"
N_a == ROLES_PREFIX \o <<"a">>
N_b == ROLES_PREFIX \o <<"b">>
N_a_slash_b == ROLES_PREFIX \o <<"a", "/", "b">>
N_a_under_b == ROLES_PREFIX \o <<"a", "_", "b">>
N_roles_a == ROLES_PREFIX \o ROLES_PREFIX \o <<"a">>

\* role objects as the API returns them; a key that is absent is not in the record
R_viewer == [name |-> N_a, title |-> "Viewer", includedPermissions |-> <<P_a_dot_b>>]
R_admin == [name |-> N_b, title |-> "Admin", stage |-> "GA",
            includedPermissions |-> <<P_a_dot_b, P_b_dot_a>>]
R_dup == [name |-> N_a_slash_b, stage |-> "",
          includedPermissions |-> <<P_b_dot_a, P_a, P_b_dot_a>>]
R_beta == [name |-> N_a_under_b, title |-> "Beta", stage |-> "BETA",
           includedPermissions |-> <<P_a_slash_b, P_B>>]
R_noperms == [name |-> N_roles_a, stage |-> "DEPRECATED"]
R_noname == [stage |-> "ALPHA", includedPermissions |-> <<P_a_under_b, P_a_dot_b>>]
R_empty == [name |-> N_a, title |-> "Viewer", stage |-> "", includedPermissions |-> <<>>]

RolePool == {R_viewer, R_admin, R_dup, R_beta, R_noperms, R_noname, R_empty}

\* the 'roles' arrays a page may carry
PagePool == {<<>>, <<R_viewer>>, <<R_admin, R_dup>>, <<R_beta, R_noname>>,
             <<R_noperms, R_empty>>, <<R_dup, R_beta, R_viewer>>}

\* the nextPageToken values a page may carry
TokenPool == {"", "t1", "t2"}

\* token printed by the credential command
AccessToken == "ya29.token"

\* the exit status of the process: none while it runs, then the status it ended
\* with (1 for sys.exit(1) and for an uncaught exception, 0 at the end of main)
Running == <<>>
Exited(status) == <<status>>

\* bool(x) for None and str
Truthy(x) == x # None /\ x # ""

RECURSIVE SeqsUpTo(_, _)
SeqsUpTo(S, n) ==
    IF n = 0 THEN {<<>>}
    ELSE LET shorter == SeqsUpTo(S, n - 1)
         IN  shorter \cup {Append(q, x) : q \in shorter, x \in S}

\* the API responses that may follow page number n - 1: JSON objects with
\* optional 'roles' and 'nextPageToken'; the last page allowed carries no token
Responses(n) ==
    LET rolesPart == {[x \in {} |-> <<>>]} \cup {("roles" :> p) : p \in PagePool}
        tokens == IF n < MaxPages THEN TokenPool ELSE {""}
        tokenPart == {[x \in {} |-> <<>>]} \cup {("nextPageToken" :> t) : t \in tokens}
    IN  {r @@ t : r \in rolesPart, t \in tokenPart}

(***************************************************************************)
(* State.                                                                  *)
(***************************************************************************)
NoPath == [dir |-> "", file |-> <<>>]

Event(op, path) == [op |-> op, path |-> path]

\* content of a file: what it holds and the rendered value
File(kind, text) == [kind |-> kind, text |-> <<text>>]

StaleFile == [kind |-> "stale", text |-> <<>>]
PartialFile == [kind |-> "partial", text |-> <<>>]

EmptyFs == [p \in {} |-> StaleFile]

\* output of an earlier run: data file, sitemap, index, one page per directory
StaleFs == [p \in {json_path, sitemap_path, index_path, RolePath(N_a),
                   [dir |-> ROLES_DIR, file |-> <<"z">> \o HTML_EXT],
                   PermPath(P_a_dot_b)} |-> StaleFile]

EmptyDataset == build_dataset(<<>>)

\* the request of one loop iteration: the URL's query parameters
Request(pt) ==
    [pageSize |-> 1000, view |-> "FULL",
     pageToken |-> IF Truthy(pt) THEN pt ELSE None,
     bearer |-> token]

Init ==
    /\ pc = "mkdirs"
    /\ exit_status = Running
    /\ \E start \in {<<{}, EmptyFs>>, <<AllDirs, EmptyFs>>, <<AllDirs, StaleFs>>} :
          dirs = start[1] /\ fs = start[2]
    /\ fs0 = fs
    /\ token = None
    /\ page_token = None
    /\ page_num = 0
    /\ all_roles = <<>>
    /\ roles = <<>>
    /\ dataset = EmptyDataset
    /\ idx = 0
    /\ requests = <<>>
    /\ responses = <<>>
    /\ trace = <<>>

\* the state main() is in when fetch_all_roles has returned rs from a single page
InitBuild ==
    /\ pc = "build"
    /\ exit_status = Running
    /\ dirs = AllDirs
    /\ fs \in {EmptyFs, StaleFs}
    /\ fs0 = fs
    /\ token = AccessToken
    /\ page_token = None
    /\ page_num = 1
    /\ roles \in SeqsUpTo(RolePool, MaxRoles)
    /\ all_roles = roles
    /\ dataset = EmptyDataset
    /\ idx = 0
    /\ requests = <<[pageSize |-> 1000, view |-> "FULL", pageToken |-> None,
                     bearer |-> AccessToken]>>
    /\ responses = <<("roles" :> roles)>>
    /\ trace = <<Event("mkdir", NoPath), Event("get_token", NoPath),
                 Event("request", NoPath)>>

(***************************************************************************)
(* main(), one action per step.                                            *)
(***************************************************************************)
Log(op, path) == Append(trace, Event(op, path))

\* OUTPUT_DIR.mkdir(...) ... PERMISSIONS_DIR.mkdir(parents=True, exist_ok=True)
MkDirs ==
    /\ pc = "mkdirs"
    /\ dirs' = dirs \cup AllDirs
    /\ trace' = Log("mkdir", NoPath)
    /\ pc' = "get_token"
    /\ UNCHANGED <<exit_status, token, page_token, page_num, all_roles, roles,
                   dataset, idx, fs, fs0, requests, responses>>

\* a get_token that carries on after a failed credential command
get_token_ignoring_status(returncode) ==
    [pc |-> "fetch", exit_status |-> Running, token |-> AccessToken]

\* get_token(): sys.exit(1) on a non-zero return code, else the token printed
get_token(returncode) ==
    IF returncode # 0
    THEN [pc |-> "exited", exit_status |-> Exited(1), token |-> None]
    ELSE [pc |-> "fetch", exit_status |-> Running, token |-> AccessToken]

\* token = get_token()
GetToken ==
    /\ pc = "get_token"
    /\ \E returncode \in {0, 1} :
          LET r == get_token(returncode)
          IN  /\ pc' = r.pc
              /\ exit_status' = r.exit_status
              /\ token' = r.token
              /\ trace' = Log(IF returncode = 0 THEN "get_token" ELSE "get_token_failed",
                              NoPath)
    /\ UNCHANGED <<dirs, page_token, page_num, all_roles, roles, dataset, idx, fs,
                   fs0, requests, responses>>

\* a loop that appends only the first page's roles
ExtendFirstPageOnly(acc, data) ==
    IF acc = <<>> THEN Get(data, "roles", <<>>) ELSE acc

\* all_roles.extend(data.get('roles', []))
Extend(acc, data) == acc \o Get(data, "roles", <<>>)

\* the loop goes on: page_token = data.get('nextPageToken') is truthy
LoopContinues(data) == Truthy(Get(data, "nextPageToken", None))

\* an exception out of fetch_url that ends the loop with the roles fetched so far
OnFetchErrorReturnsPartial(acc) ==
    [pc |-> "build", exit_status |-> Running, all_roles |-> acc, roles |-> acc]

\* an exception out of fetch_url (transport or decode error): nothing catches it,
\* fetch_all_roles is unwound with its all_roles, main's roles is never assigned
OnFetchError(acc) ==
    [pc |-> "crashed", exit_status |-> Exited(1), all_roles |-> <<>>, roles |-> <<>>]

\* one iteration of the loop of fetch_all_roles: a request, then its response or
\* an exception out of fetch_url
FetchPage ==
    /\ pc = "fetch"
    /\ page_num' = page_num + 1
    /\ requests' = Append(requests, Request(page_token))
    /\ \/ \E data \in Responses(page_num + 1) :
             /\ trace' = Log("request", NoPath)
             /\ responses' = Append(responses, data)
             /\ all_roles' = Extend(all_roles, data)
             /\ page_token' = Get(data, "nextPageToken", None)
             /\ IF LoopContinues(data)
                THEN pc' = "fetch" /\ roles' = roles
                ELSE pc' = "build" /\ roles' = all_roles'
             /\ UNCHANGED exit_status
       \/ LET r == OnFetchError(all_roles)
          IN  /\ trace' = Log("request_failed", NoPath)
              /\ pc' = r.pc
              /\ exit_status' = r.exit_status
              /\ all_roles' = r.all_roles
              /\ roles' = r.roles
              /\ UNCHANGED <<responses, page_token>>
    /\ UNCHANGED <<dirs, token, dataset, idx, fs, fs0>>

\* dataset = build_dataset(roles)
BuildDataset ==
    /\ pc = "build"
    /\ dataset' = build_dataset(roles)
    /\ trace' = Log("build", NoPath)
    /\ pc' = "save_json"
    /\ UNCHANGED <<exit_status, dirs, token, page_token, page_num, all_roles, roles,
                   idx, fs, fs0, requests, responses>>

Put(f, path, content) ==
    [q \in DOMAIN f \cup {path} |-> IF q = path THEN content ELSE f[q]]

\* a failed write that removes what the run has written so far
FailedWriteRollsBack(f, path, outcome) ==
    [q \in {q \in DOMAIN f : f[q].kind = "stale"} |-> f[q]]

\* the file system after open() raised (nothing changed) or write() raised (the
\* file was truncated by open and holds at most a part of the text)
FailedWrite(f, path, outcome) ==
    IF outcome = "write_failed" THEN Put(f, path, PartialFile) ELSE f

\* with open(path, 'w') as f: f.write(content): done, or an uncaught OSError
WriteFile(path, content, next_pc, next_idx) ==
    \E outcome \in {"ok", "open_failed", "write_failed"} :
        IF outcome = "ok"
        THEN /\ fs' = Put(fs, path, content)
             /\ trace' = Log("write", path)
             /\ pc' = next_pc
             /\ idx' = next_idx
             /\ exit_status' = IF next_pc = "done" THEN Exited(0) ELSE exit_status
        ELSE /\ fs' = FailedWrite(fs, path, outcome)
             /\ trace' = Log("write_failed", path)
             /\ pc' = "crashed"
             /\ idx' = idx
             /\ exit_status' = Exited(1)

\* where main goes when a for loop over d.roles is reached
AtRolePages(d) == IF Len(d.roles) > 0 THEN "role_pages" ELSE "sitemap"

\* where main goes when the for loop over d.permissions is reached
AtPermPages(d) == IF Len(d.permissions) > 0 THEN "perm_pages" ELSE AtRolePages(d)

\* json.dump(dataset, f, indent=2)
SaveJson ==
    /\ pc = "save_json"
    /\ WriteFile(json_path, File("json", dataset), AtPermPages(dataset), 0)
    /\ UNCHANGED <<dirs, token, page_token, page_num, all_roles, roles, dataset,
                   fs0, requests, responses>>

\* one iteration of: for i, perm in enumerate(dataset['permissions'])
WritePermPage ==
    /\ pc = "perm_pages"
    /\ idx < Len(dataset.permissions)
    /\ LET perm == dataset.permissions[idx + 1]
       IN  WriteFile(PermPath(perm.name),
                     File("permission", generate_permission_page(perm)),
                     IF idx + 1 < Len(dataset.permissions)
                     THEN "perm_pages" ELSE AtRolePages(dataset),
                     IF idx + 1 < Len(dataset.permissions) THEN idx + 1 ELSE 0)
    /\ UNCHANGED <<dirs, token, page_token, page_num, all_roles, roles, dataset,
                   fs0, requests, responses>>

\* one iteration of: for i, role in enumerate(dataset['roles'])
WriteRolePage ==
    /\ pc = "role_pages"
    /\ idx < Len(dataset.roles)
    /\ LET role == dataset.roles[idx + 1]
       IN  WriteFile(RolePath(role.name),
                     File("role", generate_role_page(role)),
                     IF idx + 1 < Len(dataset.roles) THEN "role_pages" ELSE "sitemap",
                     IF idx + 1 < Len(dataset.roles) THEN idx + 1 ELSE 0)
    /\ UNCHANGED <<dirs, token, page_token, page_num, all_roles, roles, dataset,
                   fs0, requests, responses>>

\* sitemap = generate_sitemap(dataset['roles'], dataset['permissions']); f.write(sitemap)
WriteSitemap ==
    /\ pc = "sitemap"
    /\ WriteFile(sitemap_path,
                 File("sitemap", generate_sitemap(dataset.roles, dataset.permissions)),
                 "index", 0)
    /\ UNCHANGED <<dirs, token, page_token, page_num, all_roles, roles, dataset,
                   fs0, requests, responses>>

\* index_html = generate_index_page(dataset['metadata']); f.write(index_html)
WriteIndex ==
    /\ pc = "index"
    /\ WriteFile(index_path, File("index", generate_index_page(dataset.metadata)),
                 "done", 0)
    /\ UNCHANGED <<dirs, token, page_token, page_num, all_roles, roles, dataset,
                   fs0, requests, responses>>

Next ==
    \/ MkDirs
    \/ GetToken
    \/ FetchPage
    \/ BuildDataset
    \/ SaveJson
    \/ WritePermPage
    \/ WriteRolePage
    \/ WriteSitemap
    \/ WriteIndex

\* the steps of main() that follow fetch_all_roles
NextBuild ==
    \/ BuildDataset
    \/ SaveJson
    \/ WritePermPage
    \/ WriteRolePage
    \/ WriteSitemap
    \/ WriteIndex

\* a run of main()
Spec == Init /\ [][Next]_vars

\* build_dataset and the writers applied to every role list of up to MaxRoles roles
SpecBuild == InitBuild /\ [][NextBuild]_vars

(***************************************************************************)
(* Vocabulary of the properties.                                           *)
(***************************************************************************)
Range(q) == {q[i] : i \in DOMAIN q}

\* build_dataset has returned in this run
HasBuilt == \E i \in DOMAIN trace : trace[i].op = "build"

\* the run has written path successfully
HasWritten(path) == \E i \in DOMAIN trace : trace[i] = Event("write", path)

\* the grant list of an input role, [] when the key is absent
GrantsOf(role) == IF "includedPermissions" \in DOMAIN role
                  THEN role.includedPermissions ELSE <<>>

\* the name of an input role, '' when the key is absent
NameOf(role) == IF "name" \in DOMAIN role THEN role.name ELSE <<>>

PermNames == {dataset.permissions[i].name : i \in DOMAIN dataset.permissions}

\* the input roles of each grant of permission p, in discovery order: role by
\* role, once per occurrence of p in the role's grant list
RECURSIVE Grantors(_, _)
Grantors(rs, p) ==
    IF rs = <<>> THEN <<>>
    ELSE LET hits == SelectSeq(GrantsOf(Head(rs)), LAMBDA x : x = p)
         IN  [i \in 1..Len(hits) |-> Head(rs)] \o Grantors(Tail(rs), p)

\* the paths of the successful writes into directory d, in the order written
WritesInto(d) ==
    LET w == SelectSeq(trace, LAMBDA e : e.op = "write" /\ e.path.dir = d)
    IN  [i \in 1..Len(w) |-> w[i].path]

(***************************************************************************)
(* C1: the names of the permission records built by build_dataset are      *)
(* exactly the union of the grant lists of the input roles (nothing        *)
(* missing, nothing added), and every input role, also one that grants     *)
(* nothing, has its record at its position of the role list.               *)
(***************************************************************************)
C1_PermissionsAreTheUnion ==
    HasBuilt =>
        /\ PermNames = UNION {Range(GrantsOf(roles[j])) : j \in DOMAIN roles}
        /\ Len(dataset.roles) = Len(roles)
        /\ \A j \in DOMAIN roles : dataset.roles[j].name = NameOf(roles[j])

\* a role without permissions beside roles that share a permission
C1_Witness ==
    /\ HasBuilt
    /\ \E j \in DOMAIN roles : GrantsOf(roles[j]) = <<>>
    /\ \E j \in DOMAIN roles : Len(GrantsOf(roles[j])) > 1
    /\ \E i \in DOMAIN dataset.permissions :
          Len(dataset.permissions[i].granted_by_roles) > 1
    /\ Len(dataset.permissions) > 2

(***************************************************************************)
(* C2: for every permission P of the dataset, the role names found in P's  *)
(* granted_by_roles are exactly the names of the input roles whose grant   *)
(* list contains P, and granted_by_roles is not empty.                     *)
(***************************************************************************)
C2_GrantorsAreExact ==
    HasBuilt =>
        \A i \in DOMAIN dataset.permissions :
            LET perm == dataset.permissions[i]
            IN  /\ {g.name : g \in Range(perm.granted_by_roles)}
                     = {NameOf(roles[j]) :
                          j \in {k \in DOMAIN roles : perm.name \in Range(GrantsOf(roles[k]))}}
                /\ perm.granted_by_roles # <<>>

\* a permission granted by two roles of different names while a third role does not
C2_Witness ==
    /\ HasBuilt
    /\ \E i \in DOMAIN dataset.permissions :
          LET perm == dataset.permissions[i]
          IN  /\ Cardinality({g.name : g \in Range(perm.granted_by_roles)}) > 1
              /\ \E j \in DOMAIN roles : perm.name \notin Range(GrantsOf(roles[j]))

(***************************************************************************)
(* C3 as claimed: the stage of every role record and of every grantor      *)
(* summary is "GA" when the input role has no stage or an empty one, and   *)
(* the input role's stage otherwise.                                       *)
(***************************************************************************)
C3_Original ==
    HasBuilt =>
        LET want(role) == IF "stage" \notin DOMAIN role \/ role.stage = ""
                          THEN "GA" ELSE role.stage
        IN  /\ \A j \in DOMAIN roles : dataset.roles[j].stage = want(roles[j])
            /\ \A i \in DOMAIN dataset.permissions :
                  LET perm == dataset.permissions[i]
                      from == Grantors(roles, perm.name)
                  IN  /\ Len(perm.granted_by_roles) = Len(from)
                      /\ \A k \in DOMAIN from :
                            perm.granted_by_roles[k].stage = want(from[k])

(***************************************************************************)
(* C3 as amended: the stage of every role record and of every grantor      *)
(* summary is "GA" when the input role has no stage field, and the input   *)
(* role's stage unchanged otherwise, the empty string included.            *)
(***************************************************************************)
C3_StageDefaultsWhenMissing ==
    HasBuilt =>
        LET want(role) == IF "stage" \notin DOMAIN role THEN "GA" ELSE role.stage
        IN  /\ \A j \in DOMAIN roles : dataset.roles[j].stage = want(roles[j])
            /\ \A i \in DOMAIN dataset.permissions :
                  LET perm == dataset.permissions[i]
                      from == Grantors(roles, perm.name)
                  IN  /\ Len(perm.granted_by_roles) = Len(from)
                      /\ \A k \in DOMAIN from :
                            perm.granted_by_roles[k].stage = want(from[k])

\* roles without a stage, with an empty stage and with a stage of their own, each
\* granting something
C3_Witness ==
    /\ HasBuilt
    /\ \E j \in DOMAIN roles : "stage" \notin DOMAIN roles[j] /\ GrantsOf(roles[j]) # <<>>
    /\ \E j \in DOMAIN roles :
          "stage" \in DOMAIN roles[j] /\ roles[j].stage = "" /\ GrantsOf(roles[j]) # <<>>
    /\ \E j \in DOMAIN roles :
          "stage" \in DOMAIN roles[j] /\ roles[j].stage = "BETA" /\ GrantsOf(roles[j]) # <<>>

(***************************************************************************)
(* C4: the permission records are in strictly ascending lexicographic      *)
(* order of name, so no name occurs twice; the permission pages are        *)
(* written in that order and the sitemap lists the permissions in it.      *)
(***************************************************************************)
C4_PermissionsSorted ==
    HasBuilt =>
        /\ \A i \in 1..(Len(dataset.permissions) - 1) :
              StrLess(dataset.permissions[i].name, dataset.permissions[i + 1].name)
        /\ LET w == WritesInto(PERMISSIONS_DIR)
           IN  /\ Len(w) <= Len(dataset.permissions)
               /\ \A i \in DOMAIN w : w[i] = PermPath(dataset.permissions[i].name)
        /\ HasWritten(sitemap_path) =>
              LET sm == fs[sitemap_path].text[1]
                  base == 1 + Len(dataset.roles)
              IN  \A i \in DOMAIN dataset.permissions :
                      /\ base + i \in DOMAIN sm
                      /\ sm[base + i].loc.path = Quote(dataset.permissions[i].name)

\* a finished run over roles that repeat a permission within a role and across roles
C4_Witness ==
    /\ pc = "done"
    /\ Len(dataset.permissions) > 3
    /\ \E j \in DOMAIN roles :
          Len(GrantsOf(roles[j])) > Cardinality(Range(GrantsOf(roles[j])))
    /\ \E i \in DOMAIN dataset.permissions :
          Cardinality({g.name : g \in Range(dataset.permissions[i].granted_by_roles)}) > 1
    /\ Len(WritesInto(PERMISSIONS_DIR)) = Len(dataset.permissions)

(***************************************************************************)
(* C5: the sitemap holds 1 + len(roles) + len(permissions) <url> entries:  *)
(* the root first, then one per role in input order, then one per          *)
(* permission in input order.                                              *)
(***************************************************************************)
C5_SitemapEntries ==
    HasWritten(sitemap_path) =>
        LET sm == fs[sitemap_path].text[1]
            nr == Len(dataset.roles)
            np == Len(dataset.permissions)
        IN  /\ Len(sm) = 1 + nr + np
            /\ sm[1].loc.section = "/"
            /\ \A i \in 1..nr :
                  /\ sm[1 + i].loc.section = "/roles/"
                  /\ sm[1 + i].loc.path = Quote(Replace(dataset.roles[i].name, ROLES_PREFIX, <<>>))
            /\ \A i \in 1..np :
                  /\ sm[1 + nr + i].loc.section = "/permissions/"
                  /\ sm[1 + nr + i].loc.path = Quote(dataset.permissions[i].name)

\* a sitemap written for several roles and several permissions
C5_Witness ==
    /\ HasWritten(sitemap_path)
    /\ Len(dataset.roles) > 1
    /\ Len(dataset.permissions) > 1
    /\ Len(fs[sitemap_path].text[1]) > 4

(***************************************************************************)
(* Vocabulary of the properties of a run.                                  *)
(***************************************************************************)
LastEvent == trace[Len(trace)]

Happened(op) == \E i \in DOMAIN trace : trace[i].op = op

NoWrites == \A i \in DOMAIN trace : trace[i].op \notin {"write", "write_failed"}

\* the nextPageToken of a response, None when the key is absent
TokenOf(data) == IF "nextPageToken" \in DOMAIN data THEN data.nextPageToken ELSE None

\* the 'roles' arrays of the responses, absent read as empty, end to end
RECURSIVE ConcatRoles(_)
ConcatRoles(resps) ==
    IF resps = <<>> THEN <<>>
    ELSE (IF "roles" \in DOMAIN Head(resps) THEN Head(resps).roles ELSE <<>>)
         \o ConcatRoles(Tail(resps))

\* fetch_all_roles has returned to main
FetchReturned == pc = "build" \/ HasBuilt

FilesIn(d) == {p \in DOMAIN fs : p.dir = d}

\* the step of main an event belongs to, 1 (directories) to 9 (index page)
Rank(e) ==
    CASE e.op = "mkdir" -> 1
      [] e.op \in {"get_token", "get_token_failed"} -> 2
      [] e.op \in {"request", "request_failed"} -> 3
      [] e.op = "build" -> 4
      [] e.op \in {"write", "write_failed"} /\ e.path = json_path -> 5
      [] e.op \in {"write", "write_failed"} /\ e.path.dir = PERMISSIONS_DIR -> 6
      [] e.op \in {"write", "write_failed"} /\ e.path.dir = ROLES_DIR -> 7
      [] e.op \in {"write", "write_failed"} /\ e.path = sitemap_path -> 8
      [] e.op \in {"write", "write_failed"} /\ e.path = index_path -> 9

Failed(e) == e.op \in {"get_token_failed", "request_failed", "write_failed"}

(***************************************************************************)
(* C6 as claimed: after a successful run from empty role and permission    *)
(* directories over roles of pairwise distinct names, the role directory   *)
(* holds len(roles) files and the permission directory len(permissions)    *)
(* files: no two names share a file.                                       *)
(***************************************************************************)
C6_OneFilePerEntity ==
    ( /\ pc = "done"
      /\ fs0 = EmptyFs
      /\ \A i, j \in DOMAIN roles : i # j => NameOf(roles[i]) # NameOf(roles[j]) )
    => /\ Cardinality(FilesIn(ROLES_DIR)) = Len(dataset.roles)
       /\ Cardinality(FilesIn(PERMISSIONS_DIR)) = Len(dataset.permissions)

(***************************************************************************)
(* C7: fetch_all_roles returns the 'roles' arrays of pages 1..k end to     *)
(* end, k being the first page without a non-empty nextPageToken; the      *)
(* first request carries no page token, every later one the token of the   *)
(* response before it; each page is requested once and none after page k.  *)
(***************************************************************************)
C7_Pagination ==
    /\ Len(requests) = page_num
    /\ ~Happened("request_failed") => Len(requests) = Len(responses)
    /\ Happened("request_failed") => Len(requests) = Len(responses) + 1
    /\ requests # <<>> => requests[1].pageToken = None
    /\ \A i \in 2..Len(requests) :
          /\ Truthy(TokenOf(responses[i - 1]))
          /\ requests[i].pageToken = TokenOf(responses[i - 1])
    /\ FetchReturned =>
          LET k == Len(responses)
          IN  /\ k >= 1
              /\ ~Truthy(TokenOf(responses[k]))
              /\ \A i \in 1..(k - 1) : Truthy(TokenOf(responses[i]))
              /\ Len(requests) = k
              /\ roles = ConcatRoles(responses)

\* a fetch of as many pages as the API may serve, the last two carrying roles
C7_Witness ==
    /\ pc = "build"
    /\ Len(responses) = MaxPages
    /\ "roles" \in DOMAIN responses[MaxPages] /\ responses[MaxPages].roles # <<>>
    /\ "roles" \in DOMAIN responses[MaxPages - 1] /\ responses[MaxPages - 1].roles # <<>>
    /\ Len(roles) > 3

(***************************************************************************)
(* C8: when the credential command exits with a non-zero status the run    *)
(* ends there with a non-zero exit status: no request has been sent and    *)
(* no file has been written or overwritten.                                *)
(***************************************************************************)
C8_AuthFailureNoOutput ==
    Happened("get_token_failed") =>
        /\ LastEvent.op = "get_token_failed"
        /\ pc = "exited"
        /\ exit_status # Running /\ exit_status # Exited(0)
        /\ requests = <<>>
        /\ NoWrites
        /\ fs = fs0

\* the credential command failed in a run that found the output of an earlier run
C8_Witness ==
    /\ Happened("get_token_failed")
    /\ pc = "exited"
    /\ fs0 = StaleFs

(***************************************************************************)
(* C9: when a page request fails, on the first page or after successful    *)
(* pages, the run ends there: every file is as it was before the run and   *)
(* the roles fetched so far are gone.                                      *)
(***************************************************************************)
C9_FetchFailureNoOutput ==
    Happened("request_failed") =>
        /\ LastEvent.op = "request_failed"
        /\ pc = "crashed"
        /\ exit_status = Exited(1)
        /\ NoWrites
        /\ fs = fs0
        /\ roles = <<>>
        /\ all_roles = <<>>

\* a failure after a page that carried roles, in a run that found earlier output
C9_Witness ==
    /\ Happened("request_failed")
    /\ Len(responses) >= 1
    /\ ConcatRoles(responses) # <<>>
    /\ fs0 = StaleFs

(***************************************************************************)
(* C10: the steps of main follow one another in the order directories,     *)
(* token, pages, dataset, iam-data.json, permission pages, role pages,     *)
(* sitemap, index page, each after the one before it is complete; a        *)
(* failed step is the last one; what earlier steps wrote stays in place    *)
(* when a write fails; index.html is written after every other output.     *)
(***************************************************************************)
C10_StepOrder ==
    LET n == Len(trace)
        rank == [i \in 1..n |-> Rank(trace[i])]
        reached == IF n = 0 THEN 0 ELSE rank[n]
        permPages == Len(WritesInto(PERMISSIONS_DIR))
        rolePages == Len(WritesInto(ROLES_DIR))
    IN  /\ \A i \in 1..(n - 1) :
              /\ rank[i] <= rank[i + 1]
              /\ rank[i] = rank[i + 1] => rank[i] \in {3, 6, 7}
              /\ ~Failed(trace[i])
        /\ \A r \in 1..5 : r < reached => \E j \in 1..(n - 1) : rank[j] = r
        /\ reached > 3 => ~Truthy(TokenOf(responses[Len(responses)]))
        /\ reached > 4 => dataset = build_dataset(roles)
        /\ reached > 6 => permPages = Len(dataset.permissions)
        /\ reached > 7 => rolePages = Len(dataset.roles)
        /\ \A i \in 1..n :
              trace[i].op = "write" =>
                  /\ trace[i].path \in DOMAIN fs
                  /\ fs[trace[i].path].kind # "stale"
                  /\ fs[trace[i].path].kind = "partial" =>
                        LastEvent = Event("write_failed", trace[i].path)
        /\ HasWritten(index_path) <=> pc = "done"
        /\ HasWritten(index_path) =>
              /\ HasWritten(json_path)
              /\ HasWritten(sitemap_path)
              /\ permPages = Len(dataset.permissions)
              /\ rolePages = Len(dataset.roles)

\* a run stopped by a failed role page write after it wrote several permission pages
C10_Witness ==
    /\ pc = "crashed"
    /\ LastEvent.op = "write_failed"
    /\ LastEvent.path.dir = ROLES_DIR
    /\ Len(WritesInto(PERMISSIONS_DIR)) > 1
    /\ Len(WritesInto(ROLES_DIR)) > 0
    /\ fs0 = StaleFs

====
